---- MODULE Spec2Model ----
(***************************************************************************)
(* Model of platform-cli: the plugin registry (src/plugins/registry.js),   *)
(* plugin discovery (src/plugins/discovery.js) and the generate command    *)
(* (commands/generate.js) that sequences template processing and plugin    *)
(* application.                                                            *)
(***************************************************************************)
EXTENDS Integers, Sequences, FiniteSets, TLC

\* ------------------------------------------------------------------ bounds

\* Plugin names of the registry-level specifications.
Names == {"A", "B", "C"}

\* Longest dependency list a plugin declares.
MaxDeps == 2

\* Most dependency entries declared by all registered plugins together.
MaxEdges == 4

\* Longest list of requested plugin names.
MaxReq == 2

\* ------------------------------------------------------------------ helpers

Range(s) == {s[i] : i \in 1..Len(s)}

\* Array.prototype.includes
Includes(s, x) == \E i \in 1..Len(s) : s[i] = x

SeqsUpTo(S, n) == UNION {[1..k -> S] : k \in 0..n}

\* ------------------------------------------------------------------ state

VARIABLES
    plugins,       \* PluginRegistry.plugins: name -> plugin object
    lastOp,        \* the last registry operation performed and what it returned or threw
    call,          \* the registry call being executed step by step, its outcome once over
    stack,         \* its call stack: one frame per active loop over a name list
    orderVisited,  \* getPluginsInDependencyOrder's local visited
    orderResult,   \* getPluginsInDependencyOrder's local result
    pc,            \* where the generate action stands
    options,       \* the command-line options of the run
    context,       \* the context object the action builds
    numFiles,      \* how many files templateSource.getFiles() listed
    written,       \* how many of them are written under outputDir
    scanned,       \* how many local and packaged plugin candidates discovery has tried
    orderedPlugins,\* the action's local orderedPlugins
    applied,       \* the plugin.apply calls made so far, in order
    effects,       \* the plugins whose apply has changed the generated project
    cleanups,      \* the calls of templateSource.cleanup(), each with its outcome
    exitCode,      \* how the process ended, once it has
    globalConfig,  \* getConfig(): the configuration of the process
    templateSource,\* the GitTemplateSource of the run: templateName and config
    cloned,        \* the git clone commands load() has run: url and branch
    files,         \* processTemplate's files, as getFiles() listed them
    inFlight,      \* the files whose processFile call has started and not settled
    output,        \* the files written under outputDir, in the order of writing
    warnings,      \* the warnings the processor logged on unresolved {{ }} spans
    discoveryWarnings, \* how many candidates discovery skipped with a warning
    thrown         \* the error the catch block of the action received

regVars == <<plugins, lastOp>>
stepVars == <<call, stack, orderVisited, orderResult>>
procVars == <<files, numFiles, inFlight, output, warnings, written>>
runVars == <<pc, options, context, numFiles, written, scanned, orderedPlugins,
             applied, effects, cleanups, exitCode, globalConfig, templateSource, cloned,
             files, inFlight, output, warnings, discoveryWarnings, thrown>>
vars == <<plugins, lastOp, call, stack, orderVisited, orderResult,
          pc, options, context, numFiles, written, scanned, orderedPlugins,
          applied, effects, cleanups, exitCode, globalConfig, templateSource, cloned,
          files, inFlight, output, warnings, discoveryWarnings, thrown>>

\* ------------------------------------------------------------------ registry

\* A plugin object: getName() and getDependencies().
Plugin(name, deps) == [name |-> name, deps |-> deps]

hasPlugin(reg, name) == name \in DOMAIN reg

getPlugin(reg, name) ==
    IF ~hasPlugin(reg, name)
    THEN [ok |-> FALSE, kind |-> "NotFound", plugin |-> name]
    ELSE [ok |-> TRUE, value |-> reg[name]]

\* Map.set(name, plugin)
MapSet(reg, name, plugin) ==
    [n \in DOMAIN reg \cup {name} |-> IF n = name THEN plugin ELSE reg[n]]

\* register without the has test: the later plugin replaces the earlier one.
registerOverwrite(reg, plugin) ==
    [ok |-> TRUE, reg |-> MapSet(reg, plugin.name, plugin)]

\* register(plugin): the registry afterwards and whether the call threw.
register(reg, plugin) ==
    IF hasPlugin(reg, plugin.name)
    THEN [ok |-> FALSE, kind |-> "AlreadyRegistered", plugin |-> plugin.name, reg |-> reg]
    ELSE [ok |-> TRUE, reg |-> MapSet(reg, plugin.name, plugin)]

RECURSIVE visit(_, _, _), visitEach(_, _, _)

\* visit with the push moved before the loop over the dependencies.
visitPushFirst(reg, st, name) ==
    IF name \in st.visited
    THEN st
    ELSE LET marked == [st EXCEPT !.visited = @ \cup {name}]
         IN  IF hasPlugin(reg, name)
             THEN visitEach(reg, [marked EXCEPT !.result = Append(@, name)],
                            reg[name].deps)
             ELSE marked

\* visit without the hasPlugin test: an unknown name is pushed like any other.
visitPushUnknown(reg, st, name) ==
    IF name \in st.visited
    THEN st
    ELSE LET marked == [st EXCEPT !.visited = @ \cup {name}]
             after == IF hasPlugin(reg, name)
                      THEN visitEach(reg, marked, reg[name].deps)
                      ELSE marked
         IN  IF ~Includes(after.result, name)
             THEN [after EXCEPT !.result = Append(@, name)]
             ELSE after

\* The closure visit of getPluginsInDependencyOrder; st holds the two locals
\* it captures, the visited set and the result array.
visit(reg, st, name) ==
    IF name \in st.visited
    THEN st
    ELSE LET marked == [st EXCEPT !.visited = @ \cup {name}]
         IN  IF hasPlugin(reg, name)
             THEN LET after == visitEach(reg, marked, reg[name].deps)
                  IN  IF ~Includes(after.result, name)
                      THEN [after EXCEPT !.result = Append(@, name)]
                      ELSE after
             ELSE marked

\* The loops run through their array from its last element to its first.
visitEachReversed(reg, st, names) ==
    IF names = <<>>
    THEN st
    ELSE visitEach(reg, visit(reg, st, names[Len(names)]),
                   SubSeq(names, 1, Len(names) - 1))

\* for (const dep of dependencies) visit(dep)  /  for (const name of pluginNames) visit(name)
visitEach(reg, st, names) ==
    IF names = <<>>
    THEN st
    ELSE visitEach(reg, visit(reg, st, Head(names)), Tail(names))

\* getPluginsInDependencyOrder looking every requested name up with getPlugin,
\* which throws on an unknown one.
getPluginsInDependencyOrderStrict(reg, pluginNames) ==
    IF \E i \in 1..Len(pluginNames) : ~hasPlugin(reg, pluginNames[i])
    THEN [ok |-> FALSE, kind |-> "NotFound",
          plugin |-> pluginNames[CHOOSE i \in 1..Len(pluginNames) :
                                   /\ ~hasPlugin(reg, pluginNames[i])
                                   /\ \A j \in 1..(i - 1) : hasPlugin(reg, pluginNames[j])]]
    ELSE [ok |-> TRUE,
          value |-> visitEach(reg, [visited |-> {}, result |-> <<>>], pluginNames).result]

getPluginsInDependencyOrder(reg, pluginNames) ==
    [ok |-> TRUE,
     value |-> visitEach(reg, [visited |-> {}, result |-> <<>>], pluginNames).result]

RECURSIVE resolveDependencies(_, _, _), resolveEach(_, _, _, _)

\* resolveDependencies(name, visited): ok, or the error thrown.
resolveDependencies(reg, name, visited) ==
    IF name \in visited
    THEN [ok |-> FALSE, kind |-> "Circular", plugin |-> name]
    ELSE LET got == getPlugin(reg, name)
         IN  IF ~got.ok
             THEN got
             ELSE resolveEach(reg, name, got.value.deps, visited \cup {name})

RECURSIVE resolveShared(_, _, _), resolveEachSharedAcc(_, _, _, _)

\* resolveDependencies with one visited set shared by all recursive calls
\* (no copy): seen is the set as the call leaves it.
resolveShared(reg, name, visited) ==
    IF name \in visited
    THEN [res |-> [ok |-> FALSE, kind |-> "Circular", plugin |-> name], seen |-> visited]
    ELSE LET got == getPlugin(reg, name)
         IN  IF ~got.ok
             THEN [res |-> got, seen |-> visited \cup {name}]
             ELSE resolveEachSharedAcc(reg, name, got.value.deps, visited \cup {name})

resolveEachSharedAcc(reg, name, deps, visited) ==
    IF deps = <<>>
    THEN [res |-> [ok |-> TRUE], seen |-> visited]
    ELSE IF ~hasPlugin(reg, Head(deps))
         THEN [res |-> [ok |-> FALSE, kind |-> "Unresolved", plugin |-> name,
                        dep |-> Head(deps)],
               seen |-> visited]
         ELSE LET r == resolveShared(reg, Head(deps), visited)
              IN  IF ~r.res.ok THEN r
                  ELSE resolveEachSharedAcc(reg, name, Tail(deps), r.seen)

resolveEachShared(reg, name, deps, visited) ==
    resolveEachSharedAcc(reg, name, deps, visited).res

\* The loop over dependencies; each recursive call gets its own copy of visited.
resolveEach(reg, name, deps, visited) ==
    IF deps = <<>>
    THEN [ok |-> TRUE]
    ELSE IF ~hasPlugin(reg, Head(deps))
         THEN [ok |-> FALSE, kind |-> "Unresolved", plugin |-> name, dep |-> Head(deps)]
         ELSE LET r == resolveDependencies(reg, Head(deps), visited)
              IN  IF ~r.ok THEN r ELSE resolveEach(reg, name, Tail(deps), visited)

\* ------------------------------------------------------------------ registry API specification

RECURSIVE SumDeps(_, _)
SumDeps(reg, S) ==
    IF S = {} THEN 0
    ELSE LET n == CHOOSE x \in S : TRUE
         IN  Len(reg[n].deps) + SumDeps(reg, S \ {n})

\* Dependency entries declared by the registered plugins together.
Edges(reg) == SumDeps(reg, DOMAIN reg)

NoOp == [op |-> "none"]

\* The registry is filled first and queried afterwards (discovery precedes
\* resolution); a behaviour ends with the query whose outcome lastOp records.
Filling == lastOp.op \in {"none", "register"} /\ call.fn = "none"

NoCall == [fn |-> "none"]

\* undefined
NoValue == "<undefined>"

\* No traversal is being executed step by step.
StepsIdle ==
    /\ call = NoCall
    /\ stack = <<>>
    /\ orderVisited = {}
    /\ orderResult = <<>>

\* No error has been thrown.
NoError == [from |-> "none"]

\* No template source has been made.
NoSource == [templateName |-> NoValue, config |-> <<>>]

\* The run has made no template source, listed no file, written nothing and
\* logged nothing.
NothingDone ==
    /\ templateSource = NoSource
    /\ cloned = <<>>
    /\ files = <<>>
    /\ inFlight = {}
    /\ output = <<>>
    /\ warnings = <<>>
    /\ numFiles = 0
    /\ written = 0
    /\ scanned = 0
    /\ discoveryWarnings = 0
    /\ orderedPlugins = <<>>
    /\ applied = <<>>
    /\ effects = {}
    /\ cleanups = <<>>
    /\ thrown = NoError
    /\ exitCode = NoValue

\* No generate command is running.
RunIdle ==
    /\ pc = "off"
    /\ options = NoValue
    /\ context = NoValue
    /\ globalConfig = NoValue
    /\ NothingDone

\* new PluginRegistry(): the map is empty.
InitRegistry ==
    /\ plugins = <<>>
    /\ lastOp = NoOp
    /\ StepsIdle
    /\ RunIdle

\* pluginRegistry.register(plugin) for any plugin object with a name of S.
RegisterIn(S) ==
    \E name \in S, deps \in SeqsUpTo(S, MaxDeps) :
        LET offered == Plugin(name, deps)
            r == register(plugins, offered)
        IN  /\ Filling
            /\ Len(deps) + Edges(plugins) <= MaxEdges
            /\ plugins' = r.reg
            /\ lastOp' = [op |-> "register", plugin |-> offered, ok |-> r.ok]
            /\ UNCHANGED <<stepVars, runVars>>

Register == RegisterIn(Names)

\* The name lists a caller requests: any list of up to MaxReq names, and the
\* lists that name every plugin once.
Requests ==
    SeqsUpTo(Names, MaxReq)
    \cup {req \in [1..Cardinality(Names) -> Names] : Range(req) = Names}

\* pluginRegistry.getPluginsInDependencyOrder(pluginNames) for any name list.
Order ==
    \E req \in Requests :
        /\ Filling
        /\ lastOp' = [op |-> "order", req |-> req,
                      res |-> getPluginsInDependencyOrder(plugins, req)]
        /\ UNCHANGED <<plugins, stepVars, runVars>>

\* pluginRegistry.resolveDependencies(name) for any name.
Resolve ==
    \E name \in Names :
        /\ Filling
        /\ lastOp' = [op |-> "resolve", name |-> name,
                      res |-> resolveDependencies(plugins, name, {})]
        /\ UNCHANGED <<plugins, stepVars, runVars>>

NextRegistry == Register \/ Order \/ Resolve

SpecRegistry == InitRegistry /\ [][NextRegistry]_vars

\* ------------------------------------------------------------------ dependency graph

\* The declared dependencies of a registered plugin; an unknown name has none.
DepsOf(reg, n) == IF n \in DOMAIN reg THEN Range(reg[n].deps) ELSE {}

RECURSIVE ReachableFrom(_, _)
\* The names reached from the names of S along zero or more dependency edges.
ReachableFrom(reg, S) ==
    LET next == S \cup UNION {DepsOf(reg, n) : n \in S}
    IN  IF next = S THEN S ELSE ReachableFrom(reg, next)

\* The direct and transitive dependencies of n.
TransDeps(reg, n) == ReachableFrom(reg, DepsOf(reg, n))

OnCycle(reg, n) == n \in TransDeps(reg, n)

Acyclic(reg) == \A n \in DOMAIN reg : ~OnCycle(reg, n)

NoDuplicates(s) == \A i, j \in 1..Len(s) : s[i] = s[j] => i = j

\* The requested names that are registered, in their order.
Known(reg, req) == SelectSeq(req, LAMBDA n : n \in DOMAIN reg)

\* ------------------------------------------------------------------ the two traversals, step by step

\* Plugin names of the step-by-step specification.
StepNames == {"A", "B"}

\* No traversal of the registry nests deeper: the guard of a call is never the
\* reason a traversal stops (DepthNeverBinds).
MaxDepth == Cardinality(StepNames) + 2

Top == stack[Len(stack)]

Running == call.fn # "none" /\ call.outcome = "running"

\* The frame of a loop `for (const x of list)`: owner is the plugin whose
\* dependencies are iterated ("" for the loop over pluginNames), i the next
\* index, seen the visited set the resolveDependencies call was given.
Frame(owner, list, seen) == [owner |-> owner, list |-> list, i |-> 1, seen |-> seen]

\* The loop takes its next element off the front of the array it iterates.
AdvanceShift(stk) == [stk EXCEPT ![Len(stk)].list = Tail(@)]

\* The loop goes to its next element.
Advance(stk) == [stk EXCEPT ![Len(stk)].i = @ + 1]

Pop(stk) == SubSeq(stk, 1, Len(stk) - 1)

RegisterStep == RegisterIn(StepNames)

\* getPluginsInDependencyOrder(pluginNames) is entered: the two locals are
\* created and the loop over pluginNames starts.
StartOrder ==
    \E req \in SeqsUpTo(StepNames, MaxReq) :
        /\ Filling
        /\ call' = [fn |-> "order", req |-> req, outcome |-> "running"]
        /\ stack' = <<Frame("", req, {})>>
        /\ orderVisited' = {}
        /\ orderResult' = <<>>
        /\ UNCHANGED <<regVars, runVars>>

\* The test that opens visit, always failing.
NeverVisited(name) == FALSE

\* The test that opens visit.
AlreadyVisited(name) == name \in orderVisited

\* One iteration of a loop calls visit(name): visit returns at once on a
\* visited name; it marks the name and, for a registered one, starts the loop
\* over its dependencies.
VisitCall ==
    /\ Running /\ call.fn = "order"
    /\ Top.i <= Len(Top.list)
    /\ LET name == Top.list[Top.i]
       IN  IF AlreadyVisited(name)
           THEN /\ stack' = Advance(stack)
                /\ UNCHANGED orderVisited
           ELSE /\ orderVisited' = orderVisited \cup {name}
                /\ IF hasPlugin(plugins, name)
                   THEN /\ Len(stack) < MaxDepth
                        /\ stack' = Append(Advance(stack),
                                           Frame(name, plugins[name].deps, {}))
                   ELSE stack' = Advance(stack)
    /\ UNCHANGED <<regVars, runVars, call, orderResult>>

\* The loop over a plugin's dependencies is over: visit pushes the name and
\* returns to the loop that called it.
VisitReturn ==
    /\ Running /\ call.fn = "order"
    /\ Len(stack) > 1
    /\ Top.i > Len(Top.list)
    /\ orderResult' = IF ~Includes(orderResult, Top.owner)
                      THEN Append(orderResult, Top.owner)
                      ELSE orderResult
    /\ stack' = Pop(stack)
    /\ UNCHANGED <<regVars, runVars, call, orderVisited>>

\* The loop over pluginNames is over: return result.
OrderReturn ==
    /\ Running /\ call.fn = "order"
    /\ Len(stack) = 1
    /\ Top.i > Len(Top.list)
    /\ call' = [call EXCEPT !.outcome = "returned"]
    /\ stack' = <<>>
    /\ UNCHANGED <<regVars, runVars, orderVisited, orderResult>>

\* resolveDependencies(name) is called with the default visited = new Set().
StartResolve ==
    \E name \in StepNames :
        /\ Filling
        /\ call' = [fn |-> "resolve", name |-> name, outcome |-> "running"]
        /\ stack' = <<[owner |-> name, list |-> <<>>, i |-> 0, seen |-> {}]>>
        /\ UNCHANGED <<regVars, runVars, orderVisited, orderResult>>

\* An exception nobody catches unwinds the whole stack.
Throw(kind, name) ==
    /\ call' = [fn |-> call.fn, name |-> call.name, outcome |-> "threw",
                kind |-> kind, plugin |-> name]
    /\ stack' = <<>>

\* The head of resolveDependencies: the cycle test, visited.add, getPlugin and
\* getDependencies (a frame with i = 0 has not run it yet).
ResolveEnter ==
    /\ Running /\ call.fn = "resolve"
    /\ Top.i = 0
    /\ IF Top.owner \in Top.seen
       THEN Throw("Circular", Top.owner)
       ELSE IF ~hasPlugin(plugins, Top.owner)
            THEN Throw("NotFound", Top.owner)
            ELSE /\ stack' = [stack EXCEPT ![Len(stack)] =
                                 [owner |-> Top.owner,
                                  list |-> plugins[Top.owner].deps,
                                  i |-> 1,
                                  seen |-> Top.seen \cup {Top.owner}]]
                 /\ UNCHANGED call
    /\ UNCHANGED <<regVars, runVars, orderVisited, orderResult>>

\* One iteration of its loop: an unregistered dependency throws, a registered
\* one is resolved by a recursive call on a copy of visited.
ResolveLoop ==
    /\ Running /\ call.fn = "resolve"
    /\ Top.i >= 1 /\ Top.i <= Len(Top.list)
    /\ LET dep == Top.list[Top.i]
       IN  IF ~hasPlugin(plugins, dep)
           THEN Throw("Unresolved", Top.owner)
           ELSE /\ Len(stack) < MaxDepth
                /\ stack' = Append(Advance(stack),
                                   [owner |-> dep, list |-> <<>>, i |-> 0,
                                    seen |-> Top.seen])
                /\ UNCHANGED call
    /\ UNCHANGED <<regVars, runVars, orderVisited, orderResult>>

\* Its loop is over: the call returns to its caller, the outermost one to the
\* caller of resolveDependencies.
ResolveReturn ==
    /\ Running /\ call.fn = "resolve"
    /\ Top.i >= 1 /\ Top.i > Len(Top.list)
    /\ stack' = Pop(stack)
    /\ call' = IF Len(stack) = 1 THEN [call EXCEPT !.outcome = "returned"] ELSE call
    /\ UNCHANGED <<regVars, runVars, orderVisited, orderResult>>

Step ==
    \/ VisitCall \/ VisitReturn \/ OrderReturn
    \/ ResolveEnter \/ ResolveLoop \/ ResolveReturn

NextSteps == RegisterStep \/ StartOrder \/ StartResolve \/ Step

SpecSteps == InitRegistry /\ [][NextSteps]_vars

\* A call that has started keeps executing: JavaScript runs a synchronous call
\* to completion.
FairSpecSteps == SpecSteps /\ WF_vars(Step)

\* The step-by-step traversals compute what the operators compute.
StepsAgree ==
    (call.fn # "none" /\ call.outcome # "running") =>
        IF call.fn = "order"
        THEN /\ call.outcome = "returned"
             /\ orderResult = getPluginsInDependencyOrder(plugins, call.req).value
        ELSE LET r == resolveDependencies(plugins, call.name, {})
             IN  /\ r.ok <=> call.outcome = "returned"
                 /\ ~r.ok => (r.kind = call.kind /\ r.plugin = call.plugin)

\* The depth guard of a call never stops a traversal.
DepthNeverBinds == Running => ENABLED Step

\* ------------------------------------------------------------------ the template processor

\* Longest content of a template file, in tokens.
MaxTokens == 2

\* Strings are sequences of tokens: a token is a run of characters the
\* processor treats as a whole (a placeholder, a separator, plain text).
\* The tokens of the strings context fields hold in the model.
Tokens(s) ==
    CASE s = "com.acme.orders" -> <<"com", ".", "acme", ".", "orders">>
      [] s = "orders.api" -> <<"orders", ".", "api">>
      [] s = "java.spring" -> <<"java", ".", "spring">>
      [] OTHER -> <<s>>

RECURSIVE Concat(_)
\* The concatenation of a sequence of strings.
Concat(ss) == IF ss = <<>> THEN <<>> ELSE Head(ss) \o Concat(Tail(ss))

\* The {{ }} spans of the model: references to the context fields name and
\* packageName, a reference to a field no context has, and a span whose
\* expression is not an expression.
Spans == {"{{name}}", "{{packageName}}", "{{author}}", "{{ }}"}

\* The spans of which new Function(...) makes a SyntaxError.
Malformed == {"{{ }}"}

\* The identifier a well-formed span evaluates.
SpanField(t) ==
    CASE t = "{{name}}" -> "name"
      [] t = "{{packageName}}" -> "packageName"
      [] t = "{{author}}" -> "author"

\* s.includes('{{') && s.includes('}}')
HasSpan(s) == \E i \in 1..Len(s) : s[i] \in Spans

\* ((__t = (expr)) == null ? '' : __t) under with (context)
SpanValue(t, ctx) ==
    IF ctx[SpanField(t)] = NoValue THEN <<>> ELSE Tokens(ctx[SpanField(t)])

\* template(s, { interpolate: /{{([\s\S]+?)}}/g })(context): compiling throws
\* on a malformed expression, evaluating throws on an identifier that is no
\* property of the context; otherwise every span is replaced by its value.
interpolate(s, ctx) ==
    IF \E i \in 1..Len(s) : s[i] \in Malformed
    THEN [ok |-> FALSE, error |-> "SyntaxError"]
    ELSE IF \E i \in 1..Len(s) : s[i] \in Spans /\ SpanField(s[i]) \notin DOMAIN ctx
    THEN [ok |-> FALSE, error |-> "ReferenceError"]
    ELSE [ok |-> TRUE,
          value |-> Concat([i \in 1..Len(s) |->
                              IF s[i] \in Spans THEN SpanValue(s[i], ctx) ELSE <<s[i]>>])]

\* GetSubstitution of String.prototype.replace: in a replacement string $&
\* stands for the matched substring.
GetSubstitution(matched, replacement) ==
    [i \in 1..Len(replacement) |->
        IF replacement[i] = "$&" THEN matched ELSE replacement[i]]

\* s.replace('token', replacement): a string pattern replaces the first match.
replaceFirst(s, token, replacement) ==
    IF ~Includes(s, token) THEN s
    ELSE LET i == CHOOSE k \in 1..Len(s) :
                      s[k] = token /\ \A j \in 1..(k - 1) : s[j] # token
         IN  SubSeq(s, 1, i - 1) \o GetSubstitution(token, replacement)
               \o SubSeq(s, i + 1, Len(s))

\* s.replace(/token/, replacement): without the g flag only the first match
\* is replaced.
replaceOnce(s, token, replacement) == replaceFirst(s, token, replacement)

\* s.replace(/token/g, replacement)
replaceAll(s, token, replacement) ==
    Concat([i \in 1..Len(s) |->
              IF s[i] = token THEN GetSubstitution(token, replacement) ELSE <<s[i]>>])

\* packageName.replace(/\./g, '/')
DotsToSlashes(s) == [i \in 1..Len(s) |-> IF s[i] = "." THEN "/" ELSE s[i]]

\* a value is truthy: here, a non-empty string
Truthy(v) == v # NoValue

\* processFile, lines 49-68: the output path of a file and whether the
\* interpolation of the path warned.
renderPath(file, ctx) ==
    LET t == interpolate(file, ctx)
        warned == HasSpan(file) /\ ~t.ok
        p1 == IF HasSpan(file) /\ t.ok THEN t.value ELSE file
        p2 == IF Truthy(ctx.packageName) /\ Includes(p1, "__packageDir__")
              THEN replaceFirst(p1, "__packageDir__",
                                DotsToSlashes(Tokens(ctx.packageName)))
              ELSE p1
    IN  [value |-> p2, warned |-> warned]

\* processFile, lines 76-98: the text written for a text file and whether the
\* interpolation of the content warned.
renderContent(textContent, ctx) ==
    LET t == interpolate(textContent, ctx)
        warned == HasSpan(textContent) /\ ~t.ok
        c1 == IF HasSpan(textContent) /\ t.ok THEN t.value ELSE textContent
        c2 == IF Truthy(ctx.packageName)
              THEN replaceAll(c1, "${packageName}", Tokens(ctx.packageName))
              ELSE c1
        c3 == IF Truthy(ctx.name)
              THEN replaceAll(c2, "${projectName}", Tokens(ctx.name))
              ELSE c2
    IN  [value |-> c3, warned |-> warned]

\* path.basename(filePath)
basename(file) == file[Len(file)]

\* path.extname on the file names of the model.
extname(name) ==
    CASE name = "Main.java" -> ".java"
      [] name = "logo.png" -> ".png"
      [] name = "Build.GRADLE" -> ".GRADLE"
      [] OTHER -> ""

\* String.prototype.toLowerCase on the file names and extensions of the model.
toLowerCase(s) ==
    CASE s = "Main.java" -> "main.java"
      [] s = "Build.GRADLE" -> "build.gradle"
      [] s = ".GRADLE" -> ".gradle"
      [] s = "README" -> "readme"
      [] OTHER -> s

textExtensions ==
    {".txt", ".md", ".html", ".css", ".scss", ".less", ".js", ".jsx", ".ts", ".tsx",
     ".json", ".xml", ".yaml", ".yml", ".properties", ".conf", ".config",
     ".java", ".kt", ".groovy", ".gradle", ".py", ".rb", ".php", ".c", ".cpp", ".h",
     ".cs", ".go", ".rs", ".swift", ".sh", ".bat", ".ps1"}

textFileNames ==
    {"dockerfile", "jenkinsfile", "makefile", "readme", "license", ".gitignore",
     ".dockerignore", ".npmignore", ".npmrc", ".env", ".env.example"}

\* Every file is taken for a text file.
isTextFileAlways(file) == TRUE

\* isTextFile(filePath)
isTextFile(file) ==
    \/ toLowerCase(extname(basename(file))) \in textExtensions
    \/ toLowerCase(basename(file)) \in textFileNames

\* What processFile writes for a template file: the entry of the output tree
\* and the warnings logged on the way, path first.
processFile(file, ctx) ==
    LET p == renderPath(file.path, ctx)
        c == IF isTextFile(file.path)
             THEN renderContent(file.content, ctx)
             ELSE [value |-> file.content, warned |-> FALSE]
    IN  [entry |-> [source |-> file.path, path |-> p.value, content |-> c.value],
         warnings |-> (IF p.warned THEN <<[file |-> file.path, part |-> "path"]>> ELSE <<>>)
                      \o (IF c.warned THEN <<[file |-> file.path, part |-> "content"]>> ELSE <<>>)]

\* ------------------------------------------------------------------ the generate command

\* getName() of the built-in plugin.
JavaSpring == "template-java-spring"

\* Plugin names of a generation run: the built-in one and two external ones.
RunNames == {JavaSpring, "X", "Y"}

\* The dependency lists external plugins of a run declare: none or one name.
RunDepLists == SeqsUpTo(RunNames, 1)

\* Most files a template holds.
MaxFiles == 3

\* Most local and packaged plugin candidates discovery finds.
MaxCand == 2

\* The <template> argument of the command.
TemplateName == "java-spring"

\* getDefaults() of JavaSpringTemplatePlugin.
JavaSpringDefaults ==
    [javaVersion |-> "17",
     springBootVersion |-> "3.2.2",
     dependencies |-> <<"web", "data-jpa", "security", "actuator", "postgresql",
                        "lombok", "validation">>,
     packageName |-> "com.example.demo",
     enableFlyway |-> TRUE,
     enableSwagger |-> TRUE]

\* new JavaSpringTemplatePlugin()
JavaSpringPlugin ==
    [name |-> JavaSpring, deps |-> <<>>, class |-> "JavaSpringTemplatePlugin",
     defaults |-> JavaSpringDefaults]

\* A plugin of a local file or of a package: getDefaults() is the inherited {}.
ExternalPlugin(name, deps) ==
    [name |-> name, deps |-> deps, class |-> "external", defaults |-> <<>>]

\* What a local file or a package yields: loads is whether require() and the
\* constructor succeed.
Candidates ==
    {[loads |-> FALSE]}
    \cup {[loads |-> TRUE, plugin |-> ExternalPlugin(n, d)] : n \in RunNames, d \in RunDepLists}

\* { ...b, ...a }: the keys of a win.
SpreadReversed(a, b) ==
    [k \in DOMAIN a \cup DOMAIN b |-> IF k \in DOMAIN a THEN a[k] ELSE b[k]]

\* { ...a, ...b }: the keys of b win.
Spread(a, b) ==
    [k \in DOMAIN a \cup DOMAIN b |-> IF k \in DOMAIN b THEN b[k] ELSE a[k]]

\* getDefaultPackage(name) on the project names of the model.
getDefaultPackage(name) ==
    CASE name = "orders-api" -> "orders.api"
      [] name = "java-spring" -> "java.spring"
      [] name = "react" -> "com.example.react"
      [] name = "internal" -> "com.example.internal"

\* a || b
OrElse(a, b) == IF a = NoValue THEN b ELSE a

\* obj.key, undefined when obj has no such property
Get(obj, key) == IF key \in DOMAIN obj THEN obj[key] ELSE NoValue

\* ------------------------------------------------------------------ configuration and template source

\* https://github.com/<org>/<repo>.git
GitHubUrl(org, repo) == <<"https://github.com/", org, "/", repo, ".git">>

\* `platform-template-${templateName}` on the template names of the model.
DefaultRepo(templateName) ==
    CASE templateName = "java-spring" -> "platform-template-java-spring"
      [] templateName = "react" -> "platform-template-react"
      [] templateName = "internal" -> "platform-template-internal"

\* defaultConfig.templates
defaultTemplates ==
    [t \in {"java-spring", "react", "node-express"} |->
        [source |-> "git",
         url |-> GitHubUrl("yourcompany",
                           CASE t = "java-spring" -> "platform-template-java-spring"
                             [] t = "react" -> "platform-template-react"
                             [] t = "node-express" -> "platform-template-node-express"),
         branch |-> "main"]]

\* The templates sections of the configuration files a user may have: none,
\* another branch for a built-in template, a template of the user's own
\* organisation, a template of a source type that is not implemented.
UserTemplates ==
    {<<>>,
     [t \in {"java-spring"} |-> [branch |-> "develop"]],
     [t \in {"internal"} |-> [org |-> "acme", repo |-> "service-template",
                              branch |-> "develop"]],
     [t \in {"react"} |-> [source |-> "local"]]}

\* lodash merge of the templates section of a configuration file into the
\* current one: templates and their keys are added or overwritten one by one.
merge(templates, user) ==
    [t \in DOMAIN templates \cup DOMAIN user |->
        IF t \notin DOMAIN user THEN templates[t]
        ELSE IF t \notin DOMAIN templates THEN user[t]
        ELSE Spread(templates[t], user[t])]

\* initializeConfig: the default configuration with the user's files merged in.
initializeConfig(user) == [templates |-> merge(defaultTemplates, user)]

\* getTemplateSource(templateName, options): the GitTemplateSource made, or
\* the error thrown for a source type other than git.
getTemplateSource(cfg, templateName, opts) ==
    LET templateConfig == IF templateName \in DOMAIN cfg.templates
                          THEN cfg.templates[templateName] ELSE <<>>
        finalConfig == Spread(templateConfig, opts)
        sourceType == OrElse(Get(finalConfig, "source"), "git")
    IN  IF sourceType = "git"
        THEN [ok |-> TRUE, value |-> [templateName |-> templateName, config |-> finalConfig]]
        ELSE [ok |-> FALSE, error |-> "not yet implemented"]

\* GitTemplateSource.getRepoUrl
getRepoUrl(src) ==
    IF "url" \in DOMAIN src.config
    THEN src.config.url
    ELSE GitHubUrl(OrElse(Get(src.config, "org"), "rcdelacruz"),
                   OrElse(Get(src.config, "repo"), DefaultRepo(src.templateName)))

\* GitTemplateSource.getBranch
getBranch(src) == OrElse(Get(src.config, "branch"), "main")

\* ------------------------------------------------------------------ the run

\* The context object of the action.
BuildContext(opts) ==
    LET name == OrElse(opts.name, opts.template)
    IN  [name |-> name,
         outputDir |-> <<".", name>>,
         packageName |-> OrElse(opts.package, getDefaultPackage(name)),
         templateName |-> opts.template,
         plugins |-> opts.withPlugins]

\* The command-line options: --name and --package given or not, any
\* --with-plugins list as commaSeparatedList parsed it (options.withPlugins || []
\* makes an absent option the empty list); --org, --repo and --branch not given.
OptionSets ==
    {[template |-> TemplateName, name |-> n, package |-> p, withPlugins |-> w,
      org |-> NoValue, repo |-> NoValue, branch |-> NoValue] :
        n \in {NoValue, "orders-api"},
        p \in {NoValue, "com.acme.orders"},
        w \in SeqsUpTo(RunNames, MaxReq)}

\* The command lines that choose where the template comes from: any template
\* of the model, --org, --repo and --branch each given or not.
SourceOptionSets ==
    {[template |-> t, name |-> NoValue, package |-> NoValue, withPlugins |-> <<>>,
      org |-> o, repo |-> r, branch |-> b] :
        t \in {"java-spring", "react", "internal"},
        o \in {NoValue, "acme"},
        r \in {NoValue, "orders-template"},
        b \in {NoValue, "release"}}

\* The files of the template a generation run clones, in the order getFiles
\* lists them: a text file with a span no context resolves, a source file
\* under the package directory, an image, a build file.
RunTemplate ==
    <<[path |-> <<"README">>,
       content |-> <<"{{author}}", "${projectName}">>],
      [path |-> <<"__packageDir__", "/", "Main.java">>,
       content |-> <<"{{name}}", "${packageName}">>],
      [path |-> <<"{{name}}", "/", "logo.png">>,
       content |-> <<"{{name}}", "${projectName}">>],
      [path |-> <<"Build.GRADLE">>,
       content |-> <<"${projectName}", "__packageDir__">>]>>

\* What getFiles may return in a generation run: the first files of the
\* template.
RunListings == {SubSeq(RunTemplate, 1, n) : n \in 0..MaxFiles}

\* The relative paths of template files.
TemplatePaths ==
    {<<"README">>,
     <<"logo.png">>,
     <<"__packageDir__", "/", "logo.png">>,
     <<"Build.GRADLE">>,
     <<"__packageDir__", "/", "Main.java">>,
     <<"__packageDir__", "/", "__packageDir__", "/", "Main.java">>,
     <<"{{name}}", "/", "README">>,
     <<"{{author}}", "/", "Main.java">>}

\* The tokens a template file's content is made of.
ContentTokens ==
    {"text", "{{name}}", "{{author}}", "{{ }}", "${projectName}", "${packageName}",
     "__packageDir__"}

\* The template files of the processor-level specification.
TemplateFiles ==
    {[path |-> p, content |-> c] :
        p \in TemplatePaths, c \in SeqsUpTo(ContentTokens, MaxTokens)}

\* A file that follows the one examined.
Trailer == [path |-> <<"README">>, content |-> <<"${projectName}">>]

\* What getFiles may return at processor level: nothing, any one file, any
\* one file followed by another.
TemplateListings ==
    {<<>>} \cup {<<f>> : f \in TemplateFiles} \cup {<<f, Trailer>> : f \in TemplateFiles}

\* The contexts processTemplate is given at processor level: the project name
\* absent, plain, or made of characters that mean something to the
\* processor; the package name absent or plain.
ProcessorContexts ==
    {[name |-> n, outputDir |-> <<".", "out">>, packageName |-> p,
      templateName |-> TemplateName, plugins |-> <<>>] :
        n \in {NoValue, "orders-api", "$&", "${packageName}"},
        p \in {NoValue, "com.acme.orders"}}

\* The action of the generate command is entered: nothing has happened yet and
\* the registry singleton is empty. No configuration file exists: the
\* configuration is the default one.
Init ==
    /\ plugins = <<>>
    /\ lastOp = NoOp
    /\ StepsIdle
    /\ pc = "start"
    /\ options \in OptionSets
    /\ globalConfig = initializeConfig(<<>>)
    /\ context = NoValue
    /\ NothingDone

\* The catch block of the action: the error is logged and the process exits
\* with status 1; nothing else is touched.
ExitWithError(error) ==
    /\ pc' = "exited"
    /\ exitCode' = 1
    /\ thrown' = error

\* if (context.plugins.length > 0): discovery comes next, else cleanup.
AfterTemplate == IF Len(context.plugins) > 0 THEN "builtin" ELSE "cleanup"

\* The context is built and getTemplateSource returns a source, or throws on a
\* template configured with a source type other than git.
Prepare ==
    /\ pc = "start"
    /\ context' = BuildContext(options)
    /\ LET made == getTemplateSource(globalConfig, options.template,
                                     [org |-> options.org, repo |-> options.repo,
                                      branch |-> options.branch])
       IN  IF made.ok
           THEN /\ templateSource' = made.value
                /\ pc' = "load"
                /\ UNCHANGED <<exitCode, thrown>>
           ELSE /\ ExitWithError([from |-> "getTemplateSource"])
                /\ UNCHANGED templateSource
    /\ UNCHANGED <<regVars, stepVars, options, globalConfig, cloned, procVars, scanned,
                   discoveryWarnings, orderedPlugins, applied, effects, cleanups>>

\* await templateSource.load(): git clone <url> --branch <branch> is run and
\* succeeds or fails.
Load ==
    /\ pc = "load"
    /\ cloned' = Append(cloned, [url |-> getRepoUrl(templateSource),
                                 branch |-> getBranch(templateSource)])
    /\ \/ /\ pc' = "process"
          /\ UNCHANGED <<exitCode, thrown>>
       \/ ExitWithError([from |-> "load"])
    /\ UNCHANGED <<regVars, stepVars, options, globalConfig, context, templateSource,
                   procVars, scanned, discoveryWarnings, orderedPlugins, applied,
                   effects, cleanups>>

\* The loop of processTemplate is entered without going through the files.
ProcessStartSkipping(listings) ==
    /\ pc = "process"
    /\ \E listed \in listings :
         /\ files' = listed
         /\ numFiles' = Len(listed)
         /\ pc' = AfterTemplate
    /\ UNCHANGED <<regVars, stepVars, options, globalConfig, context, templateSource, cloned,
                   inFlight, output, warnings, written, scanned, discoveryWarnings,
                   orderedPlugins, applied, effects, cleanups, exitCode, thrown>>

\* processTemplate up to its loop: ensureDir(outputDir) and getFiles(), which
\* returns one of the listings or rejects.
ProcessStartOn(listings) ==
    /\ pc = "process"
    /\ \/ \E listed \in listings :
            /\ files' = listed
            /\ numFiles' = Len(listed)
            /\ pc' = IF listed = <<>> THEN AfterTemplate ELSE "file"
            /\ UNCHANGED <<exitCode, thrown>>
       \/ /\ ExitWithError([from |-> "processTemplate"])
          /\ UNCHANGED <<files, numFiles>>
    /\ UNCHANGED <<regVars, stepVars, options, globalConfig, context, templateSource, cloned,
                   inFlight, output, warnings, written, scanned, discoveryWarnings,
                   orderedPlugins, applied, effects, cleanups>>

\* processTemplate in a generation run.
ProcessStart == ProcessStartOn(RunListings)

\* processTemplate on any listing of the processor-level specification.
ProcessStartAny == ProcessStartOn(TemplateListings)

\* A failed file is skipped and the loop goes on.
ProcessFileEndSkip ==
    /\ pc = "writing"
    /\ LET i == written + 1
           r == processFile(files[i], context)
       IN  /\ warnings' = warnings \o r.warnings
           /\ written' = i
           /\ pc' = IF i = numFiles THEN AfterTemplate ELSE "file"
           /\ inFlight' = inFlight \ {i}
           /\ \/ output' = Append(output, r.entry)
              \/ UNCHANGED output
           /\ UNCHANGED <<exitCode, thrown>>
    /\ UNCHANGED <<regVars, stepVars, options, globalConfig, context, templateSource, cloned,
                   files, numFiles, scanned, discoveryWarnings, orderedPlugins, applied,
                   effects, cleanups>>

\* A {{ }} span that cannot be evaluated makes processFile throw.
ProcessFileEndAbort ==
    /\ pc = "writing"
    /\ LET i == written + 1
           r == processFile(files[i], context)
       IN  /\ inFlight' = inFlight \ {i}
           /\ IF r.warnings # <<>>
              THEN /\ ExitWithError([from |-> "processFile", file |-> i,
                                     stage |-> "interpolate"])
                   /\ UNCHANGED <<output, written, warnings>>
              ELSE /\ output' = Append(output, r.entry)
                   /\ written' = i
                   /\ pc' = IF i = numFiles THEN AfterTemplate ELSE "file"
                   /\ UNCHANGED <<exitCode, thrown, warnings>>
    /\ UNCHANGED <<regVars, stepVars, options, globalConfig, context, templateSource,
                   cloned, files, numFiles, scanned, discoveryWarnings, orderedPlugins,
                   applied, effects, cleanups>>

\* processFile(file, ...) is called for the next file of the listing and
\* reads it: getFileContent returns the content or rejects.
ProcessFileBegin ==
    /\ pc = "file"
    /\ written < numFiles
    /\ LET i == written + 1
       IN  \/ /\ inFlight' = inFlight \cup {i}
              /\ pc' = "writing"
              /\ UNCHANGED <<exitCode, thrown>>
           \/ /\ ExitWithError([from |-> "processFile", file |-> i, stage |-> "read"])
              /\ UNCHANGED inFlight
    /\ UNCHANGED <<regVars, stepVars, options, globalConfig, context, templateSource, cloned,
                   files, numFiles, output, warnings, written, scanned,
                   discoveryWarnings, orderedPlugins, applied, effects, cleanups>>

\* The rest of processFile: the path and the content are rewritten, which may
\* log warnings, then ensureDir and writeFile succeed, and the loop goes on, or
\* one of them rejects, and the error leaves processTemplate.
ProcessFileEnd ==
    /\ pc = "writing"
    /\ LET i == written + 1
           r == processFile(files[i], context)
       IN  /\ warnings' = warnings \o r.warnings
           /\ inFlight' = inFlight \ {i}
           /\ \/ /\ output' = Append(output, r.entry)
                 /\ written' = i
                 /\ pc' = IF i = numFiles THEN AfterTemplate ELSE "file"
                 /\ UNCHANGED <<exitCode, thrown>>
              \/ /\ ExitWithError([from |-> "processFile", file |-> i, stage |-> "write"])
                 /\ UNCHANGED <<output, written>>
    /\ UNCHANGED <<regVars, stepVars, options, globalConfig, context, templateSource, cloned,
                   files, numFiles, scanned, discoveryWarnings, orderedPlugins, applied,
                   effects, cleanups>>

\* try { require; new PluginClass(); pluginRegistry.register(plugin) }
\* catch { logger.warn }: the registry after one candidate, and whether the
\* candidate was skipped with a warning.
TryRegister(reg, cand) ==
    IF ~cand.loads
    THEN [reg |-> reg, warned |-> TRUE]
    ELSE LET r == register(reg, cand.plugin)
         IN  [reg |-> r.reg, warned |-> ~r.ok]

\* A candidate that cannot be registered ends discovery.
DiscoverCandidateStrict ==
    /\ pc \in {"local", "npm"}
    /\ scanned < MaxCand
    /\ scanned' = scanned + 1
    /\ \E cand \in Candidates :
         LET t == TryRegister(plugins, cand)
         IN  /\ plugins' = t.reg
             /\ IF t.warned
                THEN ExitWithError([from |-> "discoverPlugins"])
                ELSE UNCHANGED <<pc, exitCode, thrown>>
    /\ UNCHANGED <<lastOp, stepVars, options, globalConfig, context, templateSource, cloned,
                   procVars, discoveryWarnings, orderedPlugins, applied, effects,
                   cleanups>>

\* discoverBuiltInPlugins: the built-in directory holds java-spring-template.js.
DiscoverBuiltIn ==
    /\ pc = "builtin"
    /\ \E loads \in BOOLEAN :
         LET t == TryRegister(plugins, [loads |-> loads, plugin |-> JavaSpringPlugin])
         IN  /\ plugins' = t.reg
             /\ discoveryWarnings' = discoveryWarnings + (IF t.warned THEN 1 ELSE 0)
    /\ pc' = "local"
    /\ UNCHANGED <<lastOp, stepVars, options, globalConfig, context, templateSource, cloned,
                   procVars, scanned, orderedPlugins, applied, effects, cleanups,
                   exitCode, thrown>>

\* One iteration of the loop of discoverLocalPlugins or of discoverNpmPlugins.
DiscoverCandidate ==
    /\ pc \in {"local", "npm"}
    /\ scanned < MaxCand
    /\ scanned' = scanned + 1
    /\ \E cand \in Candidates :
         LET t == TryRegister(plugins, cand)
         IN  /\ plugins' = t.reg
             /\ discoveryWarnings' = discoveryWarnings + (IF t.warned THEN 1 ELSE 0)
    /\ UNCHANGED <<lastOp, stepVars, pc, options, globalConfig, context, templateSource,
                   cloned, procVars, orderedPlugins, applied, effects, cleanups,
                   exitCode, thrown>>

\* The loop of a source is over: the next source, then back in the action.
DiscoverNext ==
    /\ pc \in {"local", "npm"}
    /\ pc' = IF pc = "local" THEN "npm" ELSE "resolve"
    /\ UNCHANGED <<regVars, stepVars, options, globalConfig, context, templateSource, cloned,
                   procVars, scanned, discoveryWarnings, orderedPlugins, applied,
                   effects, cleanups, exitCode, thrown>>

\* pathExists, readdir or readJson rejects: discoverPlugins logs and rethrows.
DiscoverFails ==
    /\ pc \in {"builtin", "local", "npm"}
    /\ ExitWithError([from |-> "discoverPlugins"])
    /\ UNCHANGED <<regVars, stepVars, options, globalConfig, context, templateSource, cloned,
                   procVars, scanned, discoveryWarnings, orderedPlugins, applied,
                   effects, cleanups>>

\* const orderedPlugins = pluginRegistry.getPluginsInDependencyOrder(context.plugins)
ResolveOrder ==
    /\ pc = "resolve"
    /\ LET r == getPluginsInDependencyOrder(plugins, context.plugins)
       IN  IF r.ok
           THEN /\ orderedPlugins' = r.value
                /\ pc' = IF r.value = <<>> THEN "cleanup" ELSE "apply"
                /\ UNCHANGED <<exitCode, thrown>>
           ELSE /\ ExitWithError([from |-> "getPluginsInDependencyOrder"])
                /\ UNCHANGED orderedPlugins
    /\ UNCHANGED <<regVars, stepVars, options, globalConfig, context, templateSource, cloned,
                   procVars, scanned, discoveryWarnings, applied, effects, cleanups>>

\* What apply computes from its argument before it works: the built-in plugin
\* builds config = { ...this.getDefaults(), ...context }.
ApplyConfig(plugin, arg) ==
    IF plugin.class = "JavaSpringTemplatePlugin"
    THEN Spread(plugin.defaults, arg)
    ELSE NoValue

\* The next iteration of the apply loop: getPlugin, then plugin.apply(context)
\* is called.
ApplyBegin ==
    /\ pc = "apply"
    /\ LET pluginName == orderedPlugins[Len(applied) + 1]
           got == getPlugin(plugins, pluginName)
       IN  IF got.ok
           THEN /\ applied' = Append(applied,
                                     [plugin |-> pluginName,
                                      arg |-> context,
                                      config |-> ApplyConfig(got.value, context),
                                      status |-> "running"])
                /\ pc' = "applying"
                /\ UNCHANGED <<exitCode, thrown>>
           ELSE /\ ExitWithError([from |-> "getPlugin"])
                /\ UNCHANGED applied
    /\ UNCHANGED <<regVars, stepVars, options, globalConfig, context, templateSource, cloned,
                   procVars, scanned, discoveryWarnings, orderedPlugins, effects,
                   cleanups>>

Settle(status) == [applied EXCEPT ![Len(applied)].status = status]

\* A rejected apply is swallowed and the loop goes on.
ApplyEndSwallow ==
    /\ pc = "applying"
    /\ \/ /\ applied' = Settle("ok")
          /\ effects' = effects \cup {applied[Len(applied)].plugin}
       \/ /\ applied' = Settle("failed")
          /\ UNCHANGED effects
    /\ pc' = IF Len(applied) = Len(orderedPlugins) THEN "cleanup" ELSE "apply"
    /\ UNCHANGED <<regVars, stepVars, options, globalConfig, context, templateSource, cloned,
                   procVars, scanned, discoveryWarnings, orderedPlugins, cleanups,
                   exitCode, thrown>>

\* await plugin.apply(context) settles: fulfilled, the loop goes on; rejected,
\* the catch block of the action ends the run.
ApplyEnd ==
    /\ pc = "applying"
    /\ \/ /\ applied' = Settle("ok")
          /\ effects' = effects \cup {applied[Len(applied)].plugin}
          /\ pc' = IF Len(applied) = Len(orderedPlugins) THEN "cleanup" ELSE "apply"
          /\ UNCHANGED <<exitCode, thrown>>
       \/ /\ applied' = Settle("failed")
          /\ ExitWithError([from |-> "apply", plugin |-> applied[Len(applied)].plugin])
          /\ UNCHANGED effects
    /\ UNCHANGED <<regVars, stepVars, options, globalConfig, context, templateSource, cloned,
                   procVars, scanned, discoveryWarnings, orderedPlugins, cleanups>>

\* What one call of cleanup() does: the temporary directory is removed, or it
\* is not there, or pathExists/remove fails and the catch logs a warning.
CleanupOutcomes == {"removed", "absent", "warned"}

\* cleanup() lets its failure through: the catch block of the action exits 1.
CleanupThrows ==
    /\ pc = "cleanup"
    /\ \E outcome \in CleanupOutcomes :
          /\ cleanups' = Append(cleanups, outcome)
          /\ IF outcome = "warned"
                THEN ExitWithError([from |-> "cleanup"])
                ELSE /\ pc' = "exited"
                     /\ exitCode' = 0
                     /\ UNCHANGED thrown
    /\ UNCHANGED <<regVars, stepVars, options, globalConfig, context, templateSource, cloned,
                   procVars, scanned, discoveryWarnings, orderedPlugins, applied,
                   effects>>

\* await templateSource.cleanup(), which catches its own errors and only warns;
\* the action then logs success and ends.
Cleanup ==
    /\ pc = "cleanup"
    /\ \E outcome \in CleanupOutcomes : cleanups' = Append(cleanups, outcome)
    /\ pc' = "exited"
    /\ exitCode' = 0
    /\ UNCHANGED <<regVars, stepVars, options, globalConfig, context, templateSource, cloned,
                   procVars, scanned, discoveryWarnings, orderedPlugins, applied,
                   effects, thrown>>

Next ==
    \/ Prepare \/ Load \/ ProcessStart \/ ProcessFileBegin \/ ProcessFileEnd
    \/ DiscoverBuiltIn \/ DiscoverCandidate \/ DiscoverNext \/ DiscoverFails
    \/ ResolveOrder \/ ApplyBegin \/ ApplyEnd \/ Cleanup

Spec == Init /\ [][Next]_vars

\* ------------------------------------------------------------------ processor-level specification

\* processTemplate(context, templateSource) is called with any context and
\* any listing of the model.
InitProcessor ==
    /\ plugins = <<>>
    /\ lastOp = NoOp
    /\ StepsIdle
    /\ pc = "process"
    /\ options = NoValue
    /\ globalConfig = initializeConfig(<<>>)
    /\ context \in ProcessorContexts
    /\ NothingDone

NextProcessor == ProcessStartAny \/ ProcessFileBegin \/ ProcessFileEnd

SpecProcessor == InitProcessor /\ [][NextProcessor]_vars

\* ------------------------------------------------------------------ source-level specification

\* The generate command is entered with any of the command lines that choose
\* the template's origin, under any of the configurations.
InitSource ==
    /\ plugins = <<>>
    /\ lastOp = NoOp
    /\ StepsIdle
    /\ pc = "start"
    /\ options \in SourceOptionSets
    /\ \E user \in UserTemplates : globalConfig = initializeConfig(user)
    /\ context = NoValue
    /\ NothingDone

NextSource == Prepare \/ Load

SpecSource == InitSource /\ [][NextSource]_vars

\* ------------------------------------------------------------------ claims: generation run

\* A requested registered plugin, or a registered plugin reached from one,
\* declares a dependency that is not registered.
MissingDependency(reg, req) ==
    \E n \in ReachableFrom(reg, Range(req) \cap DOMAIN reg) \cap DOMAIN reg :
        ~(DepsOf(reg, n) \subseteq DOMAIN reg)

\* C3: when a requested plugin or one of its transitive dependencies declares
\* an unregistered dependency, no apply is executed and the run ends in error.
MissingDependencyFatal ==
    (pc # "start" /\ MissingDependency(plugins, context.plugins)) =>
        /\ applied = <<>>
        /\ pc = "exited" => exitCode = 1

Failed(i) == applied[i].status = "failed"

\* C9: apply is invoked in the order getPluginsInDependencyOrder returned, one
\* plugin at a time and each at most once; after a failed apply no other apply
\* is invoked and the run exits with status 1; written files and the effects
\* of applied plugins are never undone.
ApplyInOrder ==
    [][/\ Len(applied') <= Len(orderedPlugins')
       /\ applied' # <<>> =>
             orderedPlugins' = getPluginsInDependencyOrder(plugins', context'.plugins).value
       /\ \A i \in 1..Len(applied') : applied'[i].plugin = orderedPlugins'[i]
       /\ \A i, j \in 1..Len(applied') :
             applied'[i].plugin = applied'[j].plugin => i = j
       /\ \A i \in 1..(Len(applied') - 1) : applied'[i].status = "ok"
       /\ (\E i \in 1..Len(applied') : applied'[i].status = "failed") =>
             (pc' = "exited" /\ exitCode' = 1)
       /\ (\E i \in 1..Len(applied) : Failed(i)) => applied' = applied
       /\ Len(applied') >= Len(applied)
       /\ written' >= written
       /\ effects \subseteq effects']_vars

\* C9 witness: of three ordered plugins the first was applied, the second
\* failed and the third was never invoked; the run exited with status 1 and
\* the files and the first plugin's effects are still there.
ApplyInOrderWitness ==
    /\ Len(orderedPlugins) = 3
    /\ Len(applied) = 2
    /\ applied[1].status = "ok"
    /\ applied[2].status = "failed"
    /\ pc = "exited"
    /\ exitCode = 1
    /\ effects = {applied[1].plugin}
    /\ written = numFiles
    /\ written > 0

CallsTerminate == Running ~> (call.fn # "none" /\ call.outcome # "running")

\* C5 witness: getPluginsInDependencyOrder has returned on a registry in which
\* a requested plugin lies on a dependency cycle.
CallsTerminateWitness ==
    /\ call.fn = "order"
    /\ call.outcome = "returned"
    /\ \E n \in Range(call.req) : n \in DOMAIN plugins /\ OnCycle(plugins, n)

\* ------------------------------------------------------------------ claims: registry

\* C1: on an acyclic registry, getPluginsInDependencyOrder returns a list
\* without duplicates in which every registered direct or transitive
\* dependency of a listed plugin stands at a strictly smaller index.
DependenciesFirst ==
    (lastOp.op = "order" /\ Acyclic(plugins)) =>
        /\ lastOp.res.ok
        /\ NoDuplicates(lastOp.res.value)
        /\ \A i \in 1..Len(lastOp.res.value) :
             \A d \in TransDeps(plugins, lastOp.res.value[i]) \cap DOMAIN plugins :
                \E j \in 1..(i - 1) : lastOp.res.value[j] = d

\* C1 witness: a chain of three registered plugins requested by its head; the
\* last of the chain is a dependency of the head only transitively.
DependenciesFirstWitness ==
    /\ lastOp.op = "order"
    /\ Acyclic(plugins)
    /\ Len(lastOp.req) = 1
    /\ Len(lastOp.res.value) = 3
    /\ \E d \in DOMAIN plugins :
         /\ d \in TransDeps(plugins, lastOp.req[1])
         /\ d \notin DepsOf(plugins, lastOp.req[1])

\* A cycle of registered plugins is reachable from a requested name.
CycleRequested(reg, req) ==
    \E n \in ReachableFrom(reg, Range(req)) : OnCycle(reg, n)

\* C2: when a dependency cycle is reachable from a requested name,
\* getPluginsInDependencyOrder fails with a cycle error and returns no order.
CycleFails ==
    (lastOp.op = "order" /\ CycleRequested(plugins, lastOp.req)) =>
        /\ ~lastOp.res.ok
        /\ lastOp.res.kind = "Circular"

\* C4: the order holds exactly once each registered name that is requested or
\* reachable from a requested registered name, and nothing else.
ExactlyOnceEach ==
    lastOp.op = "order" =>
        /\ lastOp.res.ok
        /\ NoDuplicates(lastOp.res.value)
        /\ Range(lastOp.res.value) =
              ReachableFrom(plugins, Range(lastOp.req)) \cap DOMAIN plugins

\* C4 witness: a plugin with a registered dependency is requested twice.
ExactlyOnceEachWitness ==
    /\ lastOp.op = "order"
    /\ Len(lastOp.req) = 2
    /\ lastOp.req[1] = lastOp.req[2]
    /\ lastOp.req[1] \in DOMAIN plugins
    /\ Len(lastOp.res.value) = 2

\* C6: an unregistered requested name raises no error, is absent from the
\* order, and the order is the one of the request without the unknown names.
UnknownSkipped ==
    lastOp.op = "order" =>
        /\ lastOp.res.ok
        /\ \A n \in Range(lastOp.req) \ DOMAIN plugins : ~Includes(lastOp.res.value, n)
        /\ lastOp.res.value =
              visitEach(plugins, [visited |-> {}, result |-> <<>>],
                        Known(plugins, lastOp.req)).result

\* C6 witness: an unknown name requested before a known one.
UnknownSkippedWitness ==
    /\ lastOp.op = "order"
    /\ Len(lastOp.req) = 2
    /\ lastOp.req[1] \notin DOMAIN plugins
    /\ lastOp.req[2] \in DOMAIN plugins
    /\ lastOp.res.ok
    /\ lastOp.res.value # <<>>

\* C7: a register call throws exactly when the name is taken and then leaves
\* the map as it was; a registered name keeps its plugin for ever.
RegisterKeepsFirst ==
    [][/\ \A n \in DOMAIN plugins : n \in DOMAIN plugins' /\ plugins'[n] = plugins[n]
       /\ (lastOp' # lastOp /\ lastOp'.op = "register") =>
             /\ lastOp'.ok <=> lastOp'.plugin.name \notin DOMAIN plugins
             /\ ~lastOp'.ok => plugins' = plugins
             /\ lastOp'.ok => plugins'[lastOp'.plugin.name] = lastOp'.plugin]_vars

\* C7 witness: a second, different plugin was offered under a taken name.
RegisterKeepsFirstWitness ==
    /\ lastOp.op = "register"
    /\ ~lastOp.ok
    /\ lastOp.plugin.name \in DOMAIN plugins
    /\ plugins[lastOp.plugin.name] # lastOp.plugin

\* Every name reached from n is registered.
AllRegistered(reg, n) == ReachableFrom(reg, {n}) \subseteq DOMAIN reg

\* C8: resolveDependencies(name) returns exactly when the name and all its
\* direct and transitive dependencies are registered and none lies on a cycle;
\* the error names a plugin on a reachable cycle, or a reachable plugin and its
\* unregistered dependency, or the unregistered name itself.
ResolveValidates ==
    lastOp.op = "resolve" =>
        LET r == lastOp.res
            reach == ReachableFrom(plugins, {lastOp.name})
        IN  /\ r.ok <=> /\ AllRegistered(plugins, lastOp.name)
                        /\ \A n \in reach : ~OnCycle(plugins, n)
            /\ ~r.ok =>
                 \/ /\ r.kind = "Circular"
                    /\ r.plugin \in reach
                    /\ OnCycle(plugins, r.plugin)
                 \/ /\ r.kind = "Unresolved"
                    /\ r.plugin \in reach \cap DOMAIN plugins
                    /\ r.dep \in DepsOf(plugins, r.plugin) \ DOMAIN plugins
                 \/ /\ r.kind = "NotFound"
                    /\ r.plugin = lastOp.name
                    /\ lastOp.name \notin DOMAIN plugins

\* C8 witness: a dependency shared by two branches (A -> B, A -> C, B -> C
\* up to renaming) resolves without a cycle error.
ResolveValidatesWitness ==
    /\ lastOp.op = "resolve"
    /\ lastOp.res.ok
    /\ lastOp.name \in DOMAIN plugins
    /\ \E b, c \in DOMAIN plugins \ {lastOp.name} :
         /\ b # c
         /\ plugins[lastOp.name].deps = <<b, c>>
         /\ plugins[b].deps = <<c>>

\* ------------------------------------------------------------------ claims: template processing

\* C11: processTemplate handles the files in the order getFiles returned them,
\* one at a time; when file i fails, the files written before i remain, no
\* file after i is read or written, the error the action receives is that of
\* file i, and the run exits with status 1 without discovering or applying
\* any plugin.
FileFailureAborts ==
    [][/\ Len(output') = written'
       /\ \A k \in 1..Len(output') : output'[k].source = files'[k].path
       /\ Len(output') >= Len(output)
       /\ SubSeq(output', 1, Len(output)) = output
       /\ inFlight' \subseteq {written' + 1}
       /\ thrown'.from = "processFile" =>
            /\ thrown'.file = written' + 1
            /\ inFlight' = {}
            /\ pc' = "exited"
            /\ exitCode' = 1
            /\ plugins' = <<>>
            /\ applied' = <<>>
       /\ thrown.from = "processFile" => UNCHANGED vars]_vars

\* C11 witness: of three files the first is written, the second failed and the
\* third was never touched; plugins were requested and none was applied.
FileFailureAbortsWitness ==
    /\ numFiles = 3
    /\ thrown.from = "processFile"
    /\ thrown.file = 2
    /\ Len(output) = 1
    /\ output[1].source = files[1].path
    /\ context.plugins # <<>>
    /\ applied = <<>>
    /\ exitCode = 1

IsSpan(t) == t \in Spans

\* A {{ }} span of the string is malformed or names a field the context lacks.
UnresolvedSpan(s, ctx) ==
    \E i \in 1..Len(s) :
        \/ s[i] \in Malformed
        \/ s[i] \in Spans \ Malformed /\ SpanField(s[i]) \notin DOMAIN ctx

Warned(file, part) ==
    \E w \in 1..Len(warnings) : warnings[w] = [file |-> file.path, part |-> part]

\* C12: a path or a text content with a {{ }} span that is malformed or names
\* a field absent from the context never makes processing fail (errors come
\* from reading and writing only): a warning is logged, the written path or
\* content has the spans of the source, and the loop goes on to the next file.
UnresolvedSpanWarns ==
    /\ thrown.from = "processFile" => thrown.stage \in {"read", "write"}
    /\ \A k \in 1..Len(output) :
         LET f == files[k]
             e == output[k]
         IN  /\ UnresolvedSpan(f.path, context) =>
                  /\ Warned(f, "path")
                  /\ SelectSeq(e.path, IsSpan) = SelectSeq(f.path, IsSpan)
             /\ (isTextFile(f.path) /\ UnresolvedSpan(f.content, context)) =>
                  /\ Warned(f, "content")
                  /\ SelectSeq(e.content, IsSpan) = SelectSeq(f.content, IsSpan)
    /\ (thrown = NoError /\ 0 < Len(output) /\ Len(output) < numFiles) =>
         pc \in {"file", "writing"}

\* C12 witness: a text file whose path names an absent field and whose content
\* holds a resolvable and a malformed span was written with both warnings, its
\* spans kept, and the file after it was written too.
UnresolvedSpanWarnsWitness ==
    /\ Len(output) = 2
    /\ files[1].path = <<"{{author}}", "/", "Main.java">>
    /\ files[1].content = <<"{{name}}", "{{ }}">>
    /\ output[1].path = files[1].path
    /\ output[1].content = files[1].content
    /\ Len(warnings) = 2
    /\ output[2].content = Tokens(context.name)

\* C13: with a package name in the context, the content written for a text
\* file holds no __packageDir__ token: each one of the source was replaced by
\* the package name with its dots turned into path separators.
PackageDirInContent ==
    \A k \in 1..Len(output) :
        (isTextFile(files[k].path) /\ Truthy(context.packageName)) =>
            output[k].content =
                replaceAll(renderContent(files[k].content, context).value,
                           "__packageDir__", DotsToSlashes(Tokens(context.packageName)))

\* The path of a template file after the interpolation of its {{ }} spans.
InterpolatedPath(file, ctx) ==
    IF HasSpan(file.path) /\ interpolate(file.path, ctx).ok
    THEN interpolate(file.path, ctx).value
    ELSE file.path

\* C14: with a package name in the context every __packageDir__ token of a
\* file's path is replaced by the package name with each dot turned into a
\* slash, so that none is left in the output path; without a package name the
\* tokens stay.
PackageDirInPath ==
    \A k \in 1..Len(output) :
        LET p == InterpolatedPath(files[k], context)
        IN  IF Truthy(context.packageName)
            THEN /\ output[k].path =
                      replaceAll(p, "__packageDir__",
                                 DotsToSlashes(Tokens(context.packageName)))
                 /\ ~Includes(output[k].path, "__packageDir__")
            ELSE output[k].path = p

\* The content of a template file after the interpolation of its {{ }} spans.
InterpolatedContent(file, ctx) ==
    IF HasSpan(file.content) /\ interpolate(file.content, ctx).ok
    THEN interpolate(file.content, ctx).value
    ELSE file.content

\* C15: in the content written for a text file every ${projectName} token is
\* replaced by the project name and every ${packageName} token by the package
\* name, each only when the field has a value; everything else is as it was.
LiteralTokensReplaced ==
    \A k \in 1..Len(output) :
        LET c == InterpolatedContent(files[k], context)
        IN  isTextFile(files[k].path) =>
              output[k].content =
                Concat([i \in 1..Len(c) |->
                          IF c[i] = "${projectName}" /\ Truthy(context.name)
                          THEN Tokens(context.name)
                          ELSE IF c[i] = "${packageName}" /\ Truthy(context.packageName)
                          THEN Tokens(context.packageName)
                          ELSE <<c[i]>>])

\* The tokens the processor looks for in a content.
Placeholders == Spans \cup {"${projectName}", "${packageName}"}

\* No field value of the context holds a placeholder.
PlainValues(ctx) ==
    \A field \in {"name", "packageName"} :
        Truthy(ctx[field]) => Range(Tokens(ctx[field])) \cap Placeholders = {}

BinaryCopiedAsIs ==
    \A k \in 1..Len(output) :
        LET name == basename(files[k].path)
        IN  (/\ toLowerCase(extname(name)) \notin textExtensions
             /\ toLowerCase(name) \notin textFileNames) =>
                /\ output[k].content = files[k].content
                /\ output[k].path = renderPath(files[k].path, context).value

\* C17 witness: an image under the package directory whose bytes read as a
\* span and a literal token was written, under the directories of the package
\* name, with the same bytes, by a run that has a project name to put in.
BinaryCopiedAsIsWitness ==
    /\ context.name = "orders-api"
    /\ context.packageName = "com.acme.orders"
    /\ \E k \in 1..Len(output) :
         /\ files[k].path = <<"__packageDir__", "/", "logo.png">>
         /\ files[k].content = <<"{{name}}", "${projectName}">>
         /\ output[k].content = files[k].content
         /\ output[k].path = <<"com", "/", "acme", "/", "orders", "/", "logo.png">>

\* ------------------------------------------------------------------ claims: phases of a run

\* The phase a position of the action belongs to, in the order of the code.
Phase(at) ==
    CASE at = "start" -> 0
      [] at = "load" -> 1
      [] at \in {"process", "file", "writing"} -> 2
      [] at \in {"builtin", "local", "npm"} -> 3
      [] at = "resolve" -> 4
      [] at \in {"apply", "applying"} -> 5
      [] at = "cleanup" -> 6
      [] at = "exited" -> 7

\* C18: a run goes through load, file writing, discovery, resolution and
\* apply in this order and never back; files are written only after the clone
\* and before discovery, register is called only during discovery, an apply
\* starts only once every listed file is written and the order is resolved,
\* and at most one file write and at most one apply is in progress at a time.
PhasesInOrder ==
    [][/\ Phase(pc') >= Phase(pc)
       /\ (inFlight' # inFlight \/ output' # output) =>
            /\ Phase(pc) = 2
            /\ cloned # <<>>
            /\ plugins = <<>>
            /\ applied = <<>>
       /\ (plugins' # plugins \/ scanned' # scanned
             \/ discoveryWarnings' # discoveryWarnings) =>
            /\ Phase(pc) = 3
            /\ written = numFiles
            /\ orderedPlugins = <<>>
            /\ applied = <<>>
       /\ orderedPlugins' # orderedPlugins => Phase(pc) = 4
       /\ Len(applied') > Len(applied) =>
            /\ Phase(pc) = 5
            /\ written = numFiles
            /\ Len(output) = numFiles
            /\ inFlight = {}
            /\ \A i \in 1..Len(applied) : applied[i].status # "running"
       /\ Cardinality(inFlight') <= 1
       /\ Cardinality({i \in 1..Len(applied') : applied'[i].status = "running"}) <= 1]_vars

\* C18 witness: a run that cloned the template, wrote its two files,
\* registered two plugins, resolved them and applied both ends with status 0.
PhasesInOrderWitness ==
    /\ pc = "exited"
    /\ exitCode = 0
    /\ cloned # <<>>
    /\ numFiles = 2
    /\ Len(output) = 2
    /\ Cardinality(DOMAIN plugins) = 2
    /\ Len(orderedPlugins) = 2
    /\ Len(applied) = 2
    /\ \A i \in 1..2 : applied[i].status = "ok"

\* ------------------------------------------------------------------ claims: discovery

\* C19: whenever discovery tries a candidate, of the built-in directory, of
\* the local directory or of the packages, discovery goes on; the candidate
\* is either registered under a new name or skipped with a warning, and the
\* plugins registered before it stay as they were.
DiscoverySkipsFailures ==
    [][(scanned' # scanned \/ (pc = "builtin" /\ pc' = "local")) =>
         /\ pc' \in {"local", "npm"}
         /\ exitCode' = NoValue
         /\ \A n \in DOMAIN plugins : n \in DOMAIN plugins' /\ plugins'[n] = plugins[n]
         /\ \/ /\ plugins' = plugins
               /\ discoveryWarnings' = discoveryWarnings + 1
            \/ /\ Cardinality(DOMAIN plugins') = Cardinality(DOMAIN plugins) + 1
               /\ discoveryWarnings' = discoveryWarnings]_vars

\* C19 witness: the built-in plugin failed to load and was skipped with a
\* warning; discovery went on through the local and the package source, where
\* two plugins were registered, and reached resolution.
DiscoverySkipsFailuresWitness ==
    /\ pc = "resolve"
    /\ JavaSpring \notin DOMAIN plugins
    /\ discoveryWarnings = 1
    /\ scanned = 2
    /\ Cardinality(DOMAIN plugins) = 2

\* ------------------------------------------------------------------ claims: template source

\* What the configuration holds for the template of the run.
Configured ==
    IF options.template \in DOMAIN globalConfig.templates
    THEN globalConfig.templates[options.template]
    ELSE <<>>

\* C20: the repository and the branch cloned follow the precedence option,
\* configured value, default: with --org or --repo the URL is
\* https://github.com/<org>/<repo>.git made of the values given, and without
\* --branch the branch is the one configured for the template, main only when
\* none is configured.
SourcePrecedence ==
    \A i \in 1..Len(cloned) :
        /\ (options.org # NoValue \/ options.repo # NoValue) =>
             cloned[i].url =
                GitHubUrl(OrElse(options.org, OrElse(Get(Configured, "org"), "rcdelacruz")),
                          OrElse(options.repo,
                                 OrElse(Get(Configured, "repo"),
                                        DefaultRepo(options.template))))
        /\ cloned[i].branch =
             OrElse(options.branch, OrElse(Get(Configured, "branch"), "main"))

\* ------------------------------------------------------------------ claims: frame of the traversals

\* C21: from its call to its return or its throw, a traversal changes neither
\* the registry's map nor a registered plugin nor its own argument, and the
\* arrays its loops iterate stay what the caller and the plugins hold: the
\* requested name list and each plugin's dependency list.
TraversalsReadOnly ==
    [][call'.fn # "none" =>
         /\ plugins' = plugins
         /\ call.fn = "order" => (call'.fn = "order" /\ call'.req = call.req)
         /\ call.fn = "resolve" => (call'.fn = "resolve" /\ call'.name = call.name)
         /\ \A d \in 1..Len(stack') :
              IF call'.fn = "order" /\ d = 1
              THEN stack'[d].list = call'.req
              ELSE stack'[d].i >= 1 =>
                     stack'[d].list = plugins'[stack'[d].owner].deps]_vars

\* C21 witness: resolveDependencies threw on the cycle of two plugins that
\* depend on each other; both are registered as they were.
TraversalsReadOnlyWitness ==
    /\ call.fn = "resolve"
    /\ call.outcome = "threw"
    /\ call.kind = "Circular"
    /\ DOMAIN plugins = {"A", "B"}
    /\ plugins["A"] = Plugin("A", <<"B">>)
    /\ plugins["B"] = Plugin("B", <<"A">>)

\* ------------------------------------------------------------------ claims: shape of the order

RECURSIVE PostOrder(_, _, _), PostOrderEach(_, _, _)
\* The post-order walk of the tree that unfolds below a name: the walks of its
\* registered dependencies in their declared order, then the name; the tree
\* is cut where a name comes back on its own path.
PostOrder(reg, name, path) ==
    IF name \in path \/ name \notin DOMAIN reg
    THEN <<>>
    ELSE PostOrderEach(reg, reg[name].deps, path \cup {name}) \o <<name>>

PostOrderEach(reg, names, path) ==
    IF names = <<>>
    THEN <<>>
    ELSE PostOrder(reg, Head(names), path) \o PostOrderEach(reg, Tail(names), path)

\* The elements of s, each at its first occurrence.
FirstOccurrences(s) ==
    SelectSeq([i \in 1..Len(s) |-> [at |-> i, name |-> s[i]]],
              LAMBDA e : \A j \in 1..(e.at - 1) : s[j] # e.name)

\* The names of the walks seeded by the requested names in their order, each
\* name at its first visit.
FirstVisits(reg, req) ==
    LET firsts == FirstOccurrences(PostOrderEach(reg, req, {}))
    IN  [i \in 1..Len(firsts) |-> firsts[i].name]

\* Where x first stands in s.
IndexOf(s, x) == CHOOSE i \in 1..Len(s) : s[i] = x /\ \A j \in 1..(i - 1) : s[j] # x

\* The order is the depth-first post-order, and [A] with A depending on B
\* gives [B, A].
IsPostOrder(reg, req, value) ==
    /\ value = FirstVisits(reg, req)
    /\ (/\ req = <<"A">>
        /\ {"A", "B"} \subseteq DOMAIN reg
        /\ reg["A"].deps = <<"B">>
        /\ reg["B"].deps = <<>>) => value = <<"B", "A">>

\* C22 as stated: the order is the depth-first post-order, and two requested
\* registered plugins neither of which depends on the other, directly or
\* transitively, stand in the order of their first request.
PostOrderKeepsRequestOrder ==
    lastOp.op = "order" =>
        LET req == lastOp.req
            value == lastOp.res.value
        IN  /\ IsPostOrder(plugins, req, value)
            /\ \A a, b \in Range(req) \cap DOMAIN plugins :
                 (/\ IndexOf(req, a) < IndexOf(req, b)
                  /\ a \notin TransDeps(plugins, b)
                  /\ b \notin TransDeps(plugins, a)) =>
                     IndexOf(value, a) < IndexOf(value, b)

\* C22 amended: the order is the depth-first post-order, and a requested
\* registered plugin that is no dependency, direct or transitive, of a plugin
\* requested before it stands after every registered plugin requested before
\* it.
PostOrderKeepsSeedOrder ==
    lastOp.op = "order" =>
        LET req == lastOp.req
            value == lastOp.res.value
        IN  /\ IsPostOrder(plugins, req, value)
            /\ \A b \in Range(req) \cap DOMAIN plugins :
                 (\A a \in Range(req) :
                     IndexOf(req, a) < IndexOf(req, b) => b \notin TransDeps(plugins, a)) =>
                        \A a \in Range(req) \cap DOMAIN plugins :
                            IndexOf(req, a) < IndexOf(req, b) =>
                                IndexOf(value, a) < IndexOf(value, b)

\* C22 witness: three registered plugins requested as [C, A, B], where C
\* depends on B and A on nothing: B, which a plugin requested before it
\* depends on, comes first, and A, requested second, comes last.
PostOrderKeepsSeedOrderWitness ==
    /\ lastOp.op = "order"
    /\ lastOp.req = <<"C", "A", "B">>
    /\ DOMAIN plugins = {"A", "B", "C"}
    /\ plugins["C"].deps = <<"B">>
    /\ plugins["A"].deps = <<>>
    /\ plugins["B"].deps = <<>>
    /\ lastOp.res.value = <<"B", "C", "A">>

(***************************************************************************)
(* Cleanup of the template source                                          *)
(***************************************************************************)

\* Every plugin of the resolved order has been applied and has fulfilled.
AllApplied ==
    /\ Len(applied) = Len(orderedPlugins)
    /\ \A i \in 1..Len(applied) : applied[i].status = "ok"

\* C23: cleanup is invoked exactly once in a run that succeeds, after the
\* last plugin's apply has fulfilled and every file is written, and whatever
\* happens inside cleanup (a failure is only logged) the run ends with status
\* 0; a run that fails exits with status 1 and an error, cleanup never having
\* been invoked.
CleanupOnSuccessOnly ==
    [][ /\ cleanups' # cleanups =>
            /\ cleanups = <<>> /\ Len(cleanups') = 1
            /\ pc = "cleanup"
            /\ written = numFiles
            /\ Len(context.plugins) > 0 => AllApplied
            /\ pc' = "exited" /\ exitCode' = 0 /\ thrown' = NoError
        /\ (pc' = "exited" /\ exitCode' = 0) => Len(cleanups') = 1
        /\ (pc' = "exited" /\ exitCode' = 1) => cleanups' = <<>> /\ thrown' # NoError
        /\ pc = "exited" => cleanups' = cleanups
      ]_vars

\* C23 witness: a run with a plugin applied has ended with status 0 after a
\* cleanup whose failure was logged.
CleanupOnSuccessOnlyWitness ==
    /\ pc = "exited"
    /\ exitCode = 0
    /\ cleanups = <<"warned">>
    /\ Len(applied) >= 1
    /\ AllApplied


====
